---- MODULE Spec2Model ----
(***************************************************************************)
(* Hamnen backend: the caches (backend/utils/cache.js), the docker manager *)
(* (backend/utils/docker.js), the application loader                       *)
(* (backend/utils/appLoader.js), the request handlers                      *)
(* (backend/controllers/appsController.js), the router                     *)
(* (backend/routes/apps.js) and its validation middleware                  *)
(* (backend/middleware/validation.js).                                     *)
(*                                                                         *)
(* Time is counted in seconds.  node-cache stores with every key the       *)
(* instant t = now + ttl at which it expires and treats the key as         *)
(* expired on a read when t < now.                                         *)
(***************************************************************************)
EXTENDS Integers, Sequences, FiniteSets, TLC

(* ---------------------------- bounds ----------------------------------- *)
MaxTime == 3
MaxRequests == 2
MaxPuts == 1
MaxLines == 3
MaxGets == 2
MaxCore == 3
MaxParam == 5

(* ------------------------ program constants ---------------------------- *)
\* stdTTL of appStatusCache, seconds
StatusTTL == 2
\* setTimeout(resolve, 2000) in startApp, seconds
SettleDelay == 2
\* stdTTL of appListCache, seconds
ListTTL == 60
\* stdTTL of generalCache, seconds
GeneralTTL == 30
\* `appId.length > 100` in validateAppId
MaxIdLength == 100
\* validateNumber(req.query.lines, 1, 10000, 'lines')
MinLines == 1
MaxLogLines == 10000
\* `req.validatedLines || 100` in getAppLogs
DefaultLines == 100

(* --------------------------- value spaces ------------------------------ *)
\* application ids: one root-level application and one inside a category
BareIds == {"tool"}
CategoryIds == {"web/app"}
Ids == BareIds \cup CategoryIds
NoId == "-"

ContainerStates == {"running", "exited"}

RECURSIVE SeqsUpTo(_, _)
SeqsUpTo(S, n) ==
    IF n = 0 THEN {<<>>}
    ELSE LET shorter == SeqsUpTo(S, n - 1)
         IN  shorter \cup {Append(s, x) : s \in shorter, x \in S}

\* the value cache.getAppStatus returns on a miss (null)
Miss == [status |-> "Miss", containers |-> <<>>, error |-> FALSE, stamp |-> 0]

\* an empty slot of a node-cache store
NoEntry == [present |-> FALSE, v |-> Miss, t |-> 0]

VARIABLES
    now,          \* the clock, seconds
    statusCache,  \* appStatusCache.data: id -> entry
    lastOp,       \* history: the last write to each status key
    got,          \* history: the last cache.getAppStatus call and its result
    stats,        \* the module's hit/miss counters: store -> [hits, misses]
    libStats,     \* NodeCache.stats of each store: store -> [hits, misses]
    listCache,    \* appListCache.data, key 'appList'
    generalCache, \* generalCache.data, one key
    fsState,      \* the apps directory: id -> what lies in its directory
    rootReadable, \* whether readdir(appsDir) succeeds
    containers,   \* the container runtime: id -> states of the project's containers
    epoch,        \* history: number of `up -d` commands issued per id
    req,          \* the requests in flight
    served,       \* number of requests accepted so far
    puts,         \* number of statuses stored by the cache client so far
    psLines,      \* stdout of a `ps --format json` call (status derivation)
    psResult,     \* what getAppStatus made of psLines
    appId,        \* a string handed to validateAppId, as a sequence of characters
    validation,   \* what validateAppId returned for it
    route,        \* one request on its way through the router of /api/apps
    disp,         \* calls of the docker manager's executeDockerCompose
    appsDir,      \* the apps directory in full: directory -> what lies in it
    loaded,       \* the last call of the loader and what it returned
    testEnv,      \* test-all-apps.js: what the commands run for the app will do
    testResult    \* test-all-apps.js: testApp's position and its testResult

storeVars == <<stats, libStats, listCache, generalCache>>
cacheVars == <<now, statusCache, lastOp, got, storeVars>>
envVars == <<fsState, rootReadable, containers, epoch>>
reqVars == <<req, served, puts>>
validationVars == <<appId, validation>>
loaderVars == <<appsDir, loaded>>
runnerVars == <<testEnv, testResult>>
unitVars == <<psLines, psResult, validationVars, route, disp, loaderVars, runnerVars>>
vars == <<now, statusCache, lastOp, got, storeVars, fsState, rootReadable,
          containers, epoch, req, served, puts, unitVars>>

(* ======================= backend/utils/cache.js ======================== *)

\* NodeCache._check: a key whose expiry instant t lies before now is expired
Expired(e) == e.t < now

\* NodeCache.get as exposed by cache.getAppStatus: the value, or null
StatusLookup_NoExpiry(id) ==
    IF statusCache[id].present THEN statusCache[id].v ELSE Miss

StatusLookup(id) ==
    IF statusCache[id].present /\ ~Expired(statusCache[id])
    THEN statusCache[id].v
    ELSE Miss

\* the store after NodeCache.get(key): an expired key is deleted on read
AfterGet(id) ==
    IF statusCache[id].present /\ Expired(statusCache[id])
    THEN [statusCache EXCEPT ![id] = NoEntry]
    ELSE statusCache

\* the store after NodeCache.set(key, value): expiry is now + stdTTL
AfterSet_All(id, v) ==
    [k \in Ids |-> [present |-> TRUE, v |-> v, t |-> now + StatusTTL]]

AfterSet(id, v) ==
    [statusCache EXCEPT ![id] = [present |-> TRUE, v |-> v, t |-> now + StatusTTL]]

\* the store after NodeCache.del(key)
AfterDel_Nothing(id) == statusCache

AfterDel(id) == [statusCache EXCEPT ![id] = NoEntry]

NoOp == [kind |-> "none", v |-> Miss, at |-> 0]
NoGet == [id |-> NoId, res |-> Miss, at |-> 0, prior |-> NoOp]

\* values a client may store under a key; stamp is the number of start
\* commands issued for the application when the value was made
CacheValues(id) ==
    { [status |-> "stopped", containers |-> <<>>, error |-> FALSE, stamp |-> epoch[id]],
      [status |-> "running", containers |-> <<"running">>, error |-> FALSE,
       stamp |-> epoch[id]] }

\* the three stores
Stores == {"appList", "appStatus", "general"}
ZeroStats == [s \in Stores |-> [hits |-> 0, misses |-> 0]]

\* `stats.x.hits++` / `stats.x.misses++`; NodeCache.get counts the same way
Count(st, store, hit) ==
    [st EXCEPT ![store] = IF hit THEN [@ EXCEPT !.hits = @ + 1]
                                 ELSE [@ EXCEPT !.misses = @ + 1]]

\* NodeCache.flushAll: `this.stats = {hits: 0, misses: 0, ...}`
Flushed(st, store) == [st EXCEPT ![store] = [hits |-> 0, misses |-> 0]]

\* number of reads made so far
Gets ==
    stats["appList"].hits + stats["appList"].misses
    + stats["appStatus"].hits + stats["appStatus"].misses
    + stats["general"].hits + stats["general"].misses

\* cache.getStats(): the module's counters (`...stats`) and those of
\* NodeCache.getStats() of each store
GetStats ==
    [own |-> stats,
     appListStats |-> libStats["appList"],
     appStatusStats |-> libStats["appStatus"],
     generalStats |-> libStats["general"]]

\* cache.getAppStatus(appId)
CacheGetStatus(id) ==
    /\ Gets < MaxGets
    /\ got' = [id |-> id, res |-> StatusLookup(id), at |-> now, prior |-> lastOp[id]]
    /\ statusCache' = AfterGet(id)
    /\ stats' = Count(stats, "appStatus", StatusLookup(id) # Miss)
    /\ libStats' = Count(libStats, "appStatus", StatusLookup(id) # Miss)
    /\ UNCHANGED <<now, lastOp, listCache, generalCache>>

\* cache.setAppStatus(appId, status)
CachePutStatus(id, v) ==
    /\ statusCache' = AfterSet(id, v)
    /\ lastOp' = [lastOp EXCEPT ![id] = [kind |-> "put", v |-> v, at |-> now]]
    /\ UNCHANGED <<now, got, storeVars>>

\* cache.invalidateAppStatus(appId)
CacheInvalidateStatus(id) ==
    /\ statusCache' = AfterDel(id)
    /\ lastOp' = [lastOp EXCEPT ![id] = [kind |-> "inv", v |-> StatusLookup(id), at |-> now]]
    /\ UNCHANGED <<now, got, storeVars>>

\* cache.invalidateAllAppStatus(): appStatusCache.flushAll()
CacheInvalidateAllStatus ==
    /\ statusCache' = [id \in Ids |-> NoEntry]
    /\ lastOp' = [id \in Ids |-> [kind |-> "inv", v |-> StatusLookup(id), at |-> now]]
    /\ libStats' = Flushed(libStats, "appStatus")
    /\ UNCHANGED <<now, got, stats, listCache, generalCache>>

\* the catalogs a client may store
ListValues == {{"tool"}, Ids}
NoList == [present |-> FALSE, v |-> {}, t |-> 0]

\* appListCache.get('appList') as exposed by cache.getAppList: found or not
ListHit == listCache.present /\ ~Expired(listCache)

\* cache.getAppList()
CacheGetList ==
    /\ Gets < MaxGets
    /\ listCache' = IF ListHit THEN listCache ELSE NoList
    /\ stats' = Count(stats, "appList", ListHit)
    /\ libStats' = Count(libStats, "appList", ListHit)
    /\ UNCHANGED <<now, statusCache, lastOp, got, generalCache>>

\* cache.setAppList(apps)
CachePutList(apps) ==
    /\ listCache' = [present |-> TRUE, v |-> apps, t |-> now + ListTTL]
    /\ UNCHANGED <<now, statusCache, lastOp, got, stats, libStats, generalCache>>

\* cache.invalidateAppList()
CacheInvalidateList ==
    /\ listCache.present
    /\ listCache' = NoList
    /\ UNCHANGED <<now, statusCache, lastOp, got, stats, libStats, generalCache>>

NoGeneral == [present |-> FALSE, t |-> 0]
GeneralHit == generalCache.present /\ ~Expired(generalCache)

\* cache.get(key)
CacheGeneralGet ==
    /\ Gets < MaxGets
    /\ generalCache' = IF GeneralHit THEN generalCache ELSE NoGeneral
    /\ stats' = Count(stats, "general", GeneralHit)
    /\ libStats' = Count(libStats, "general", GeneralHit)
    /\ UNCHANGED <<now, statusCache, lastOp, got, listCache>>

\* cache.set(key, value, ttl): `if (ttl)` the given ttl, else stdTTL
CacheGeneralSet(ttl) ==
    /\ generalCache' = [present |-> TRUE,
                        t |-> now + (IF ttl # 0 THEN ttl ELSE GeneralTTL)]
    /\ UNCHANGED <<now, statusCache, lastOp, got, stats, libStats, listCache>>

\* cache.flushAll(): flushAll of the three stores
CacheFlushAll ==
    /\ statusCache' = [id \in Ids |-> NoEntry]
    /\ lastOp' = [id \in Ids |-> [kind |-> "inv", v |-> StatusLookup(id), at |-> now]]
    /\ listCache' = NoList
    /\ generalCache' = NoGeneral
    /\ libStats' = Flushed(Flushed(Flushed(libStats, "appList"), "appStatus"), "general")
    /\ UNCHANGED <<now, got, stats>>

\* NodeCache._checkData, run every checkperiod seconds: deletes the expired keys
CacheSweep ==
    /\ \E id \in Ids : statusCache[id].present /\ Expired(statusCache[id])
    /\ statusCache' = [id \in Ids |->
                         IF statusCache[id].present /\ Expired(statusCache[id])
                         THEN NoEntry ELSE statusCache[id]]
    /\ UNCHANGED <<now, lastOp, got, storeVars>>

\* a second passes
Tick ==
    /\ now < MaxTime
    /\ now' = now + 1
    /\ UNCHANGED <<statusCache, lastOp, got, storeVars>>

(* ======================= backend/utils/docker.js ======================= *)

\* one line of the stdout of `docker-compose ps --format json`
JsonLine(s) == [kind |-> "json", State |-> s]
LineKinds ==
    { [kind |-> "blank", State |-> "-"],     \* dropped by filter(line => line.trim())
      [kind |-> "garbage", State |-> "-"],   \* JSON.parse throws: null, dropped
      [kind |-> "null", State |-> "-"] }     \* parses to a falsy value, dropped
    \cup {JsonLine(s) : s \in ContainerStates}

\* split, filter, map(JSON.parse), filter(Boolean): the container records
ParseContainers(lines) ==
    LET kept == SelectSeq(lines, LAMBDA l : l.kind = "json")
    IN  [i \in 1..Len(kept) |-> kept[i].State]

\* containers.every(c => c.State === 'running')
AllRunning_Some(cs) == \E i \in 1..Len(cs) : cs[i] = "running"

AllRunning(cs) == \A i \in 1..Len(cs) : cs[i] = "running"

\* getAppStatus, try branch: the status derived from the command's stdout
StatusFromLines(lines, stamp) ==
    LET cs == ParseContainers(lines)
    IN  IF Len(cs) = 0
        THEN [status |-> "stopped", containers |-> <<>>, error |-> FALSE, stamp |-> stamp]
        ELSE [status |-> IF AllRunning(cs) THEN "running" ELSE "partial",
              containers |-> cs, error |-> FALSE, stamp |-> stamp]

\* getAppStatus, catch branch: what is returned when executeDockerCompose throws
StatusOnFailure(stamp) ==
    [status |-> "stopped", containers |-> <<>>, error |-> TRUE, stamp |-> stamp]

\* fs.access(composeFile) in executeDockerCompose
ComposeFileExists(id) == fsState[id] # "missing"

\* what `ps --format json` prints for a project: one record per container
PsOutput(id) == [i \in 1..Len(containers[id]) |-> JsonLine(containers[id][i])]

\* dockerManager.getAppStatus(appName); execOk: the command exits with 0
DockerGetAppStatus(id, execOk) ==
    IF ComposeFileExists(id) /\ execOk
    THEN StatusFromLines(PsOutput(id), epoch[id])
    ELSE StatusOnFailure(epoch[id])

\* what `up -d` may leave behind after a successful exit: every container
\* running, or one of them already exited
UpOutcomes == {<<"running">>, <<"running", "exited">>}

(* ===================== backend/utils/appLoader.js ====================== *)

\* what lies in an application's directory
FsKinds == {"missing",   \* description.json and docker-compose.yml are not there
            "badjson",   \* both files, description.json does not parse
            "ok"}        \* both files, both parse

\* loadApp(appName, category): a descriptor, null, or an exception
LoadApp(id) ==
    CASE fsState[id] = "missing" -> "none"
      [] fsState[id] = "badjson" -> "throw"
      [] OTHER -> "found"

\* loadApps(): the ids of the descriptors returned (every failure of a single
\* application is caught and the application left out)
LoadApps == {id \in Ids : LoadApp(id) = "found"}

\* findAppById(appId)
FindAppById(id) ==
    IF id \in CategoryIds
    THEN LoadApp(id)
    ELSE IF ~rootReadable THEN "throw"
         ELSE IF id \in LoadApps THEN "found" ELSE "none"

(* ========= backend/utils/appLoader.js over the whole directory ========= *)

\* the directories of the apps directory, as paths: one root-level
\* directory without sub-directories and one with two
Dirs == {<<"tool">>, <<"web">>, <<"web", "app">>, <<"web", "db">>}
TopDirs == {p \in Dirs : Len(p) = 1}
SubDirsOf(top) == {p \in Dirs : Len(p) = 2 /\ p[1] = top[1]}

\* what lies in a directory
DirKinds ==
    {"absent",     \* there is no such directory
     "plain",      \* a directory without description.json
     "nocompose",  \* description.json, no docker-compose.yml
     "badjson",    \* both files, description.json does not parse
     "badyaml",    \* both files, docker-compose.yml does not parse
     "withid",     \* both parse, description.json has a field "id"
     "noname",     \* both parse, description.json has no field "name"
     "ok"}         \* both parse, description.json has a name and no "id"

\* the value of the field "id" of a description.json that has one
ManifestId == <<"other">>

KindAt(p) == IF p \in Dirs THEN appsDir[p] ELSE "absent"

\* fileExists(path.join(entryPath, 'description.json'))
HasDescription_WithCompose(p) ==
    KindAt(p) \in {"badjson", "badyaml", "withid", "noname", "ok"}

HasDescription(p) ==
    KindAt(p) \in {"nocompose", "badjson", "badyaml", "withid", "noname", "ok"}

Null == [res |-> "none", id |-> <<>>, dir |-> <<>>]
Thrown == [res |-> "throw", id |-> <<>>, dir |-> <<>>]
Descriptor(id, p) == [res |-> "found", id |-> id, dir |-> p]

\* loadApp(appName, category) for the directory p: null when a file is
\* missing, an exception when one does not parse, else { id: appId,
\* name: description.name || appName, ..., ...description, ... }: a field
\* "id" of the manifest replaces appId, a missing name becomes appName
LoadAppAt(p) ==
    CASE KindAt(p) \in {"absent", "plain", "nocompose"} -> Null
      [] KindAt(p) \in {"badjson", "badyaml"} -> Thrown
      [] KindAt(p) = "withid" -> Descriptor(ManifestId, p)
      [] OTHER -> Descriptor(p, p)

\* try { loadApp(...) } catch { console.warn(...) } around each application
Caught_Rethrown(r) == r

Caught(r) == IF r.res = "throw" THEN Null ELSE r

\* what is tried for each entry of the apps directory: the entry itself when
\* it has a description.json, else the directories inside it
Tried ==
    UNION {IF HasDescription(t) THEN {t}
           ELSE IF KindAt(t) # "absent" THEN {p \in SubDirsOf(t) : KindAt(p) # "absent"}
           ELSE {} : t \in TopDirs}

\* loadApps(): an exception when readdir(appsDir) fails (or one escapes the
\* loop), else the descriptors collected
ScanAll ==
    LET results == {Caught(LoadAppAt(p)) : p \in Tried}
    IN  IF ~rootReadable \/ Thrown \in results
        THEN [res |-> "throw", apps |-> {}]
        ELSE [res |-> "ok", apps |-> {r \in results : r.res = "found"}]

\* findAppById(appId), appId as its segments: with a '/', loadApp of the first
\* two segments; without, loadApps() and apps.find(app => app.id === appId)
\* `const apps = await this.loadApps()` in findAppById: where the
\* descriptors searched come from
Catalog_Cached ==
    IF ListHit THEN [res |-> "ok", apps |-> listCache.v] ELSE ScanAll

Catalog == ScanAll

FindResults(id) ==
    IF Len(id) >= 2 THEN {LoadAppAt(<<id[1], id[2]>>)}
    ELSE IF Catalog.res = "throw" THEN {Thrown}
    ELSE IF \E d \in Catalog.apps : d.id = id
         THEN {d \in Catalog.apps : d.id = id}
         ELSE {Null}

\* the number of loadApps() calls findAppById(id) makes, and the directories
\* it has loadApp look into
FindScans(id) == IF Len(id) >= 2 THEN 0 ELSE 1
FindProbes(id) ==
    IF Len(id) >= 2 THEN {<<id[1], id[2]>>}
    ELSE IF rootReadable THEN Tried ELSE {}

(* ============ the docker manager called with any id (test.js) ========== *)

\* `hamnen_${appId.replace(/\//g, '-')}`: the -p argument
ProjectName(s) ==
    <<"hamnen_">> \o [i \in 1..Len(s) |-> IF s[i] = "/" THEN "-" ELSE s[i]]

\* one call of executeDockerCompose(appId, commandArgs)
DockerCall(id, probed, thrown, project) ==
    [appId |-> id,
     probed |-> probed,    \* fs.access was made on the path joined from the id
     thrown |-> thrown,    \* the error thrown, "-" when none
     project |-> project]  \* the project of the command run, <<>> when none

\* executeDockerCompose: join the path, fs.access(composeFile), then the test
\* for '..' and a leading '/', then the command; exists: the file is there
ExecuteDockerCompose(id, exists) ==
    IF ~exists THEN DockerCall(id, TRUE, "not found", <<>>)
    ELSE IF \E i \in 1..(Len(id) - 1) : id[i] = "." /\ id[i + 1] = "."
         THEN DockerCall(id, TRUE, "Invalid app ID", <<>>)
    ELSE IF Len(id) > 0 /\ id[1] = "/"
         THEN DockerCall(id, TRUE, "Invalid app ID", <<>>)
    ELSE DockerCall(id, TRUE, "-", ProjectName(id))

(* ================== backend/middleware/validation.js =================== *)

\* characters ids are made of here: a letter, a digit, the two permitted
\* marks, the separator, a dot and a character outside the permitted set
IdAlphabet == {"a", "7", "_", "-", "/", ".", "$"}

\* the class [a-zA-Z0-9_-] of validPattern
WordChars == {"a", "7", "_", "-"}

\* appId.includes('..')
IncludesDotDot(s) == \E i \in 1..(Len(s) - 1) : s[i] = "." /\ s[i + 1] = "."

\* appId.startsWith('/') and appId.endsWith('/')
StartsWithSlash(s) == Len(s) > 0 /\ s[1] = "/"
EndsWithSlash(s) == Len(s) > 0 /\ s[Len(s)] = "/"

\* validPattern = /^[a-zA-Z0-9_-]+(?:\/[a-zA-Z0-9_-]+)?$/ as an automaton:
\* the state after reading character c in state q
PatternStep(q, c) ==
    CASE q = "start" -> IF c \in WordChars THEN "first" ELSE "fail"
      [] q = "first" -> IF c \in WordChars THEN "first"
                        ELSE IF c = "/" THEN "slash" ELSE "fail"
      [] q = "slash" -> IF c \in WordChars THEN "second" ELSE "fail"
      [] q = "second" -> IF c \in WordChars THEN "second" ELSE "fail"
      [] OTHER -> "fail"

PatternStates == {"start", "first", "slash", "second", "fail"}

\* the automaton run over s[a..b], as the map from the state before to the
\* state after; a range is run as its two halves one after the other
RECURSIVE PatternRun(_, _, _)
PatternRun(s, a, b) ==
    IF a > b THEN [q \in PatternStates |-> q]
    ELSE IF a = b THEN [q \in PatternStates |-> PatternStep(q, s[a])]
    ELSE LET m == (a + b) \div 2
             left == PatternRun(s, a, m)
             right == PatternRun(s, m + 1, b)
         IN  [q \in PatternStates |-> right[left[q]]]

\* validPattern.test(appId)
PatternTest(s) == PatternRun(s, 1, Len(s))["start"] \in {"first", "second"}

\* `appId.length > 100`
TooLong_Never(s) == FALSE

TooLong(s) == Len(s) > MaxIdLength

Valid == [valid |-> TRUE, error |-> "-"]
Invalid(e) == [valid |-> FALSE, error |-> e]
NoValidation == [valid |-> FALSE, error |-> "not validated"]

\* validateAppId(appId)
ValidateAppId(s) ==
    IF Len(s) = 0 THEN Invalid("App ID is required and must be a string")
    ELSE IF IncludesDotDot(s) \/ StartsWithSlash(s) \/ EndsWithSlash(s)
         THEN Invalid("Invalid app ID format")
    ELSE IF ~PatternTest(s) THEN Invalid("App ID contains invalid characters")
    ELSE IF TooLong(s) THEN Invalid("App ID too long")
    ELSE Valid

\* characters of a query parameter: two digits, a letter and the minus sign
ParamAlphabet == {"0", "1", "x", "-"}
DigitValue(c) == IF c = "1" THEN 1 ELSE 0
IsDigit(c) == c \in {"0", "1"}

\* the number written by the digits s[a..b]
RECURSIVE DecimalValue(_, _, _)
DecimalValue(s, a, b) ==
    IF a > b THEN 0 ELSE 10 * DecimalValue(s, a, b - 1) + DigitValue(s[b])

NaN == [nan |-> TRUE, n |-> 0]

\* parseInt(value, 10): an optional sign, then the longest run of digits; what
\* follows the digits is ignored; NaN when there is no digit
ParseInt(s) ==
    LET neg == Len(s) > 0 /\ s[1] = "-"
        from == IF neg THEN 2 ELSE 1
        ends == {j \in (from - 1)..Len(s) : \A i \in from..j : IsDigit(s[i])}
        to == CHOOSE j \in ends : \A k \in ends : k <= j
    IN  IF to < from THEN NaN
        ELSE [nan |-> FALSE,
              n |-> IF neg THEN 0 - DecimalValue(s, from, to)
                    ELSE DecimalValue(s, from, to)]

\* validateNumber(value, min, max, paramName)
ValidateNumber(value, min, max) ==
    LET num == ParseInt(value)
    IN  IF num.nan THEN [valid |-> FALSE, value |-> 0]
        ELSE IF num.n < min \/ num.n > max THEN [valid |-> FALSE, value |-> 0]
        ELSE [valid |-> TRUE, value |-> num.n]

\* `if (!validation.valid) return res.status(400)` in validateAppIdMiddleware
IdRejected_Never(v) == FALSE

IdRejected(v) == ~v.valid

(* ======================= backend/routes/apps.js ======================== *)

\* the operations that take an id, and the middleware in front of each
RouteOps == {"get", "start", "stop", "logs"}
Middlewares(op) ==
    IF op = "logs" THEN <<"validateAppIdMiddleware", "validateQueryParams">>
    ELSE <<"validateAppIdMiddleware">>

\* ids a client may put into the path (the route patterns capture `.+`)
RouteIds ==
    { <<"a">>, <<"a", "-", "7">>, <<"a", "/", "7">>,
      <<".", ".">>, <<".", ".", "/", "a">>, <<"/", "a">>, <<"a", "/">>,
      <<"a", "/", "a", "/", "a">>, <<"a", "$">> }

\* req.query.lines: absent, or any string
NoParam == [present |-> FALSE, chars |-> <<>>]
LineParams ==
    {NoParam} \cup {[present |-> TRUE, chars |-> c] : c \in SeqsUpTo(ParamAlphabet, MaxParam)}

\* a command the docker manager was asked to run; tail is the --tail of logs
Command(c, tail) == [cmd |-> c, tail |-> tail]

NoRoute ==
    [op |-> "none", appId |-> <<>>, lines |-> NoParam, pc |-> "idle", chain |-> <<>>,
     validatedAppId |-> <<>>,  \* req.validatedAppId, <<>> while not set
     validatedLines |-> 0,     \* req.validatedLines, 0 while not set
     lookups |-> FALSE,        \* appLoader.findAppById was called
     calls |-> {},             \* the commands handed to the docker manager
     code |-> 0, errcode |-> "-"]

Received(op, id, lines) ==
    [NoRoute EXCEPT !.op = op, !.appId = id, !.lines = lines, !.pc = "routing",
                    !.chain = Middlewares(op)]

\* validateAppIdMiddleware(req, res, next)
RunValidateAppId ==
    /\ route.pc = "routing" /\ route.chain # <<>>
    /\ Head(route.chain) = "validateAppIdMiddleware"
    /\ route' =
         IF IdRejected(ValidateAppId(route.appId))
         THEN [route EXCEPT !.pc = "done", !.code = 400, !.errcode = "INVALID_APP_ID"]
         ELSE [route EXCEPT !.validatedAppId = route.appId, !.chain = Tail(@)]

\* validateQueryParams(req, res, next)
RunValidateQueryParams ==
    /\ route.pc = "routing" /\ route.chain # <<>>
    /\ Head(route.chain) = "validateQueryParams"
    /\ LET v == ValidateNumber(route.lines.chars, MinLines, MaxLogLines)
       IN  route' =
             IF ~route.lines.present THEN [route EXCEPT !.chain = Tail(@)]
             ELSE IF ~v.valid
                  THEN [route EXCEPT !.pc = "done", !.code = 400,
                                     !.errcode = "INVALID_QUERY_PARAM"]
                  ELSE [route EXCEPT !.validatedLines = v.value, !.chain = Tail(@)]

\* the controller: getApp and startApp look the id up and, when it is found,
\* call the docker manager; stopApp and getAppLogs call it straight away
RunController ==
    /\ route.pc = "routing" /\ route.chain = <<>>
    /\ \E found \in BOOLEAN, ok \in BOOLEAN :
         LET q == route
             lines == IF q.validatedLines # 0 THEN q.validatedLines ELSE DefaultLines
             end(r, code) == [r EXCEPT !.pc = "done", !.code = code,
                                       !.errcode = CASE code = 404 -> "APP_NOT_FOUND"
                                                     [] code = 500 -> "INTERNAL_ERROR"
                                                     [] OTHER -> "-"]
         IN  route' =
               CASE q.op = "get" ->
                      IF ~found THEN end([q EXCEPT !.lookups = TRUE], 404)
                      ELSE end([q EXCEPT !.lookups = TRUE,
                                         !.calls = {Command("ps", 0)}], 200)
                 [] q.op = "start" ->
                      IF ~found THEN end([q EXCEPT !.lookups = TRUE], 404)
                      ELSE IF ~ok
                           THEN end([q EXCEPT !.lookups = TRUE,
                                              !.calls = {Command("up", 0)}], 500)
                           ELSE end([q EXCEPT !.lookups = TRUE,
                                              !.calls = {Command("up", 0),
                                                         Command("ps", 0)}], 200)
                 [] q.op = "stop" ->
                      end([q EXCEPT !.calls = {Command("down", 0)}],
                          IF ok THEN 200 ELSE 500)
                 [] OTHER ->
                      end([q EXCEPT !.calls = {Command("logs", lines)}],
                          IF ok THEN 200 ELSE 500)

(* ========================== test-all-apps.js =========================== *)

\* the most containers a project under test has
MaxTestContainers == 2

\* getAppStatus(app): `ps --format json` failing yields { running: false,
\* containers: [] }; else running is "some container is running" and
\* allRunning is "there are containers and every one is running"
RunnerStatus(e) ==
    IF ~e.psOk THEN [running |-> FALSE, allRunning |-> FALSE]
    ELSE [running |-> \E i \in 1..Len(e.ps) : e.ps[i] = "running",
          allRunning |-> Len(e.ps) > 0 /\ \A i \in 1..Len(e.ps) : e.ps[i] = "running"]

\* the flag that step 3 of testApp stores in steps.status.success
StatusSuccess(e) == RunnerStatus(e).running

Step(name, ok) == [testResult.steps EXCEPT ![name] = IF ok THEN "ok" ELSE "failed"]

\* step 1: startApp throws when `up -d` fails, which takes testApp to its catch
TestApp_Start ==
    /\ testResult.pc = "start"
    /\ testResult' = [testResult EXCEPT !.steps = Step("start", testEnv.startOk),
                                        !.pc = IF testEnv.startOk THEN "status"
                                               ELSE "catch"]
    /\ UNCHANGED <<cacheVars, envVars, reqVars, psLines, psResult, validationVars,
                   route, disp, loaderVars, testEnv>>

\* steps 2 and 3: after the wait the status is queried
TestApp_Status ==
    /\ testResult.pc = "status"
    /\ testResult' = [testResult EXCEPT !.steps = Step("status", StatusSuccess(testEnv)),
                                        !.pc = "health"]
    /\ UNCHANGED <<cacheVars, envVars, reqVars, psLines, psResult, validationVars,
                   route, disp, loaderVars, testEnv>>

\* step 4: the health endpoint is probed when CHECK_HEALTH is on and the app
\* has a healthCheck url
TestApp_Health ==
    /\ testResult.pc = "health"
    /\ testResult' = [testResult EXCEPT
                        !.steps = IF testEnv.CHECK_HEALTH /\ testEnv.healthCheck
                                  THEN Step("health", testEnv.healthy)
                                  ELSE @,
                        !.pc = "stop"]
    /\ UNCHANGED <<cacheVars, envVars, reqVars, psLines, psResult, validationVars,
                   route, disp, loaderVars, testEnv>>

\* step 5 and the verdict: stopApp returns the result of `down` unexamined
\* and executeDockerCompose catches every failure of the command, so the
\* call never throws and steps.stop.success is set whatever `down` did
TestApp_Stop ==
    /\ testResult.pc = "stop"
    /\ LET steps == Step("stop", TRUE)
           success == /\ steps.start = "ok"
                      /\ steps.status = "ok"
                      /\ steps.stop = "ok"
                      /\ \/ ~testEnv.CHECK_HEALTH
                         \/ ~testEnv.healthCheck
                         \/ steps.health # "failed"
       IN  testResult' = [testResult EXCEPT
                            !.steps = steps, !.success = success,
                            !.verdict = IF success THEN "PASSED" ELSE "FAILED",
                            !.pc = "done"]
    /\ UNCHANGED <<cacheVars, envVars, reqVars, psLines, psResult, validationVars,
                   route, disp, loaderVars, testEnv>>

\* the catch of testApp: the failure is counted and a cleanup tried
TestApp_Catch ==
    /\ testResult.pc = "catch"
    /\ testResult' = [testResult EXCEPT !.verdict = "FAILED", !.pc = "done"]
    /\ UNCHANGED <<cacheVars, envVars, reqVars, psLines, psResult, validationVars,
                   route, disp, loaderVars, testEnv>>

(* ================ backend/controllers/appsController.js ================ *)

NoStates == [id \in Ids |-> "-"]
NoStamps == [id \in Ids |-> 0]

IdleReq ==
    [op |-> "none", id |-> NoId, pc |-> "idle",
     lookup |-> "-",          \* result of findAppById
     cmds |-> {},             \* docker-compose subcommands issued for the request
     outcome |-> "-",         \* how startApp / stopApp of the docker manager ended
     probe |-> "-",           \* history: what fs.access(composeFile) met at dispatch
     code |-> 0, body |-> "-",\* the HTTP response
     status |-> Miss,         \* the status object of the response
     entries |-> NoStates,    \* listApps: the status string of each entry
     stale |-> FALSE,         \* history: a status older than the request was returned
     failed |-> {},           \* listApps: history, ids whose status query failed
     catalog |-> {}, pending |-> {},
     beginEpoch |-> NoStamps, \* history: epoch when the request began
     cacheAtIssue |-> Miss,   \* history: cache.getAppStatus(id) when `up -d` (startApp)
                              \* or `ps` (getApp) was issued
     cacheAtDone |-> Miss,    \* history: cache.getAppStatus(id) when the response was sent
     settleAt |-> 0]

\* two requests can be in flight at a time; a slot whose response has been
\* sent keeps it until the next request takes the slot
Reqs == {1, 2}
Free(r) == req[r].pc \in {"idle", "done"}

Accept(r) ==
    /\ Free(r)
    /\ served < MaxRequests
    /\ \A p \in Reqs : p < r => req[p].pc # "idle"

Begin(r, op, id) ==
    [IdleReq EXCEPT !.op = op, !.id = id, !.beginEpoch = epoch]

\* res.status(code).json(...)
Respond(q, code, body) ==
    [q EXCEPT !.pc = "done", !.code = code, !.body = body,
              !.cacheAtDone = IF q.op \in {"start", "stop", "get"}
                              THEN StatusLookup(q.id) ELSE Miss]

\* the status a reader attaches to an application: dockerManager.getAppStatus
ReadStatus_ViaCache(id, execOk) ==
    IF StatusLookup(id) # Miss THEN StatusLookup(id) ELSE DockerGetAppStatus(id, execOk)

ReadStatus(id, execOk) == DockerGetAppStatus(id, execOk)

\* startApp: `if (!app) return res.status(404)`
AppMissing_Never(lookup) == FALSE

AppMissing(lookup) == lookup = "none"

\* executeDockerCompose: fs.access fails, the command is not run
ComposeCheckFails_Never(id) == FALSE

ComposeCheckFails(id) == ~ComposeFileExists(id)

\* ---- startApp ----
StartApp_Lookup(r, id) ==
    /\ Accept(r)
    /\ LET q == [Begin(r, "start", id) EXCEPT !.lookup = FindAppById(id)]
       IN  req' = [req EXCEPT ![r] =
                CASE q.lookup = "throw" -> Respond(q, 500, "error")
                  [] AppMissing(q.lookup) -> Respond(q, 404, "not_found")
                  [] OTHER -> [q EXCEPT !.pc = "start_dispatch"]]
    /\ served' = served + 1
    /\ UNCHANGED <<cacheVars, envVars, puts, unitVars>>

\* dockerManager.startApp: the compose file is probed, then the command issued
StartApp_Dispatch(r) ==
    /\ req[r].pc = "start_dispatch"
    /\ LET q == [req[r] EXCEPT !.probe = IF ComposeFileExists(req[r].id)
                                           THEN "present" ELSE "absent"]
       IN  IF ComposeCheckFails(q.id)
           THEN /\ req' = [req EXCEPT ![r] =
                            Respond([q EXCEPT !.outcome = "nocompose"], 500, "error")]
                /\ UNCHANGED epoch
           ELSE /\ req' = [req EXCEPT ![r] =
                            [q EXCEPT !.pc = "start_inflight",
                                      !.cmds = @ \cup {"up"},
                                      !.cacheAtIssue = StatusLookup(q.id)]]
                /\ epoch' = [epoch EXCEPT ![q.id] = @ + 1]
    /\ UNCHANGED <<cacheVars, fsState, rootReadable, containers,
                   served, puts, unitVars>>

\* `docker-compose up -d` ends
StartApp_Exit(r) ==
    /\ req[r].pc = "start_inflight"
    /\ LET q == req[r]
       IN  \/ \E cs \in UpOutcomes :
                /\ containers' = [containers EXCEPT ![q.id] = cs]
                /\ req' = [req EXCEPT ![r] =
                            [q EXCEPT !.pc = "start_settle", !.outcome = "ok",
                                      !.settleAt = now + SettleDelay]]
           \/ /\ req' = [req EXCEPT ![r] =
                            Respond([q EXCEPT !.outcome = "exitfail"], 500, "error")]
              /\ UNCHANGED containers
    /\ UNCHANGED <<cacheVars, fsState, rootReadable, epoch,
                   served, puts, unitVars>>

\* the timer fires SettleDelay seconds after the command ended; the status is
\* queried and the response sent
StartApp_Status(r) ==
    /\ req[r].pc = "start_settle"
    /\ now' = IF now < req[r].settleAt THEN req[r].settleAt ELSE now
    /\ \E execOk \in BOOLEAN :
         req' = [req EXCEPT ![r] =
                   Respond([req[r] EXCEPT !.cmds = @ \cup {"ps"},
                              !.status = DockerGetAppStatus(req[r].id, execOk)],
                           200, "started")]
    /\ UNCHANGED <<statusCache, lastOp, got, storeVars, envVars, served, puts, unitVars>>

\* ---- stopApp ----
StopApp_Dispatch(r, id) ==
    /\ Accept(r)
    /\ LET q == [Begin(r, "stop", id) EXCEPT
                    !.probe = IF ComposeFileExists(id) THEN "present" ELSE "absent"]
       IN  req' = [req EXCEPT ![r] =
                IF ComposeCheckFails(id)
                THEN Respond([q EXCEPT !.outcome = "nocompose"], 500, "error")
                ELSE [q EXCEPT !.pc = "stop_inflight", !.cmds = @ \cup {"down"}]]
    /\ served' = served + 1
    /\ UNCHANGED <<cacheVars, envVars, puts, unitVars>>

\* `docker-compose down` ends
StopApp_Exit(r) ==
    /\ req[r].pc = "stop_inflight"
    /\ LET q == req[r]
       IN  \/ /\ containers' = [containers EXCEPT ![q.id] = <<>>]
              /\ req' = [req EXCEPT ![r] =
                            Respond([q EXCEPT !.outcome = "ok"], 200, "stopped")]
           \/ /\ req' = [req EXCEPT ![r] =
                            Respond([q EXCEPT !.outcome = "exitfail"], 500, "error")]
              /\ UNCHANGED containers
    /\ UNCHANGED <<cacheVars, fsState, rootReadable, epoch,
                   served, puts, unitVars>>

\* ---- getApp ----
\* getApp: `if (!app) return res.status(404)`
NoApp_Never(lookup) == FALSE

NoApp(lookup) == lookup = "none"

GetApp_Lookup(r, id) ==
    /\ Accept(r)
    /\ LET q == [Begin(r, "get", id) EXCEPT !.lookup = FindAppById(id)]
       IN  req' = [req EXCEPT ![r] =
                CASE q.lookup = "throw" -> Respond(q, 500, "error")
                  [] NoApp(q.lookup) -> Respond(q, 404, "not_found")
                  [] OTHER -> [q EXCEPT !.pc = "get_query"]]
    /\ served' = served + 1
    /\ UNCHANGED <<cacheVars, envVars, puts, unitVars>>

GetApp_Status(r) ==
    /\ req[r].pc = "get_query"
    /\ \E execOk \in BOOLEAN :
         req' = [req EXCEPT ![r] =
                   Respond([req[r] EXCEPT !.cmds = @ \cup {"ps"},
                              !.cacheAtIssue = StatusLookup(req[r].id),
                              !.status = ReadStatus(req[r].id, execOk),
                              !.stale = ReadStatus(req[r].id, execOk).stamp
                                          < req[r].beginEpoch[req[r].id]],
                           200, "app")]
    /\ UNCHANGED <<cacheVars, envVars, served, puts, unitVars>>

\* ---- listApps ----
ListApps_Scan(r) ==
    /\ Accept(r)
    /\ LET q == Begin(r, "list", NoId)
       IN  req' = [req EXCEPT ![r] =
                IF ~rootReadable
                THEN Respond(q, 500, "error")
                ELSE [q EXCEPT !.pc = "list_query", !.catalog = LoadApps,
                               !.pending = LoadApps]]
    /\ served' = served + 1
    /\ UNCHANGED <<cacheVars, envVars, puts, unitVars>>

\* one of the status queries of Promise.all completes
ListApps_Status(r) ==
    /\ req[r].pc = "list_query"
    /\ \E id \in req[r].pending, execOk \in BOOLEAN :
         LET st == ReadStatus(id, execOk)
         IN  req' = [req EXCEPT ![r] =
                       [req[r] EXCEPT !.pending = @ \ {id},
                                      !.cmds = @ \cup {"ps"},
                                      !.entries[id] = st.status,
                                      !.stale = @ \/ st.stamp < req[r].beginEpoch[id],
                                      !.failed = IF st.error THEN @ \cup {id} ELSE @]]
    /\ UNCHANGED <<cacheVars, envVars, served, puts, unitVars>>

ListApps_Respond(r) ==
    /\ req[r].pc = "list_query"
    /\ req[r].pending = {}
    /\ req' = [req EXCEPT ![r] = Respond(req[r], 200, "apps")]
    /\ UNCHANGED <<cacheVars, envVars, served, puts, unitVars>>

(* ============================ environment ============================== *)

\* description.json of an application is overwritten with text that does not parse
ManifestCorrupted(id) ==
    /\ fsState[id] = "ok"
    /\ fsState' = [fsState EXCEPT ![id] = "badjson"]
    /\ UNCHANGED <<cacheVars, rootReadable, containers, epoch, reqVars, unitVars>>

\* the files of an application are removed
FilesRemoved(id) ==
    /\ fsState[id] # "missing"
    /\ fsState' = [fsState EXCEPT ![id] = "missing"]
    /\ UNCHANGED <<cacheVars, rootReadable, containers, epoch, reqVars, unitVars>>

\* the apps directory becomes unreadable
RootLost ==
    /\ rootReadable
    /\ rootReadable' = FALSE
    /\ UNCHANGED <<cacheVars, fsState, containers, epoch, reqVars, unitVars>>

(* ========================= initial state =============================== *)

InitCache ==
    /\ now = 0
    /\ statusCache = [id \in Ids |-> NoEntry]
    /\ lastOp = [id \in Ids |-> NoOp]
    /\ got = NoGet
    /\ stats = ZeroStats
    /\ libStats = ZeroStats
    /\ listCache = NoList
    /\ generalCache = NoGeneral

InitServer ==
    /\ fsState = [id \in Ids |-> "ok"]
    /\ rootReadable = TRUE
    /\ containers = [id \in Ids |-> <<>>]
    /\ epoch = [id \in Ids |-> 0]
    /\ req = [r \in Reqs |-> IdleReq]
    /\ served = 0
    /\ puts = 0

\* the units that are also modelled on their own, before they are used
ParseIdle == psLines = <<>> /\ psResult = Miss
ValidateIdle == appId = <<>> /\ validation = NoValidation
RouteIdle == route = NoRoute
DispatchIdle == disp = [ids |-> <<>>, calls |-> <<>>]
NoCall ==
    [call |-> "none", arg |-> <<>>, scan |-> [res |-> "-", apps |-> {}], found |-> Null,
     scans |-> 0,    \* history: the number of loadApps() calls made
     probes |-> {}]  \* history: the directories loadApp was called for
NoTest ==
    [pc |-> "idle",
     steps |-> [start |-> "-", status |-> "-", health |-> "-", stop |-> "-"],
     success |-> FALSE,   \* testResult.success
     verdict |-> "-"]     \* which of results.passed and results.failed was counted
NoTestEnv ==
    [startOk |-> FALSE, psOk |-> FALSE, ps |-> <<>>, CHECK_HEALTH |-> FALSE,
     healthCheck |-> FALSE, healthy |-> FALSE, stopOk |-> FALSE]
RunnerIdle == testEnv = NoTestEnv /\ testResult = NoTest
LoaderIdle == appsDir = [p \in Dirs |-> "absent"] /\ loaded = NoCall

InitRest ==
    InitServer /\ ParseIdle /\ ValidateIdle /\ RouteIdle /\ DispatchIdle /\ LoaderIdle /\ RunnerIdle

Init == InitCache /\ InitRest

(* ================== the cache on its own: SpecCache ==================== *)

CacheGet ==
    /\ \E id \in Ids : CacheGetStatus(id)
    /\ UNCHANGED <<envVars, reqVars, unitVars>>

CachePut ==
    /\ \E id \in Ids : \E v \in CacheValues(id) : CachePutStatus(id, v)
    /\ UNCHANGED <<envVars, reqVars, unitVars>>

CacheInvalidate ==
    /\ \E id \in Ids : CacheInvalidateStatus(id)
    /\ UNCHANGED <<envVars, reqVars, unitVars>>

Sweep ==
    /\ CacheSweep
    /\ UNCHANGED <<envVars, reqVars, unitVars>>

Clock ==
    /\ Tick
    /\ UNCHANGED <<envVars, reqVars, unitVars>>

NextCache == CacheGet \/ CachePut \/ CacheInvalidate \/ Sweep \/ Clock

SpecCache == Init /\ [][NextCache]_vars

(* ============ the three stores and their counters: SpecStats =========== *)

InvalidateAll ==
    /\ CacheInvalidateAllStatus
    /\ UNCHANGED <<envVars, reqVars, unitVars>>

ListGet ==
    /\ CacheGetList
    /\ UNCHANGED <<envVars, reqVars, unitVars>>

ListPut ==
    /\ \E apps \in ListValues : CachePutList(apps)
    /\ UNCHANGED <<envVars, reqVars, unitVars>>

ListInvalidate ==
    /\ CacheInvalidateList
    /\ UNCHANGED <<envVars, reqVars, unitVars>>

GeneralGet ==
    /\ CacheGeneralGet
    /\ UNCHANGED <<envVars, reqVars, unitVars>>

GeneralSet ==
    /\ \E ttl \in {0, 1} : CacheGeneralSet(ttl)
    /\ UNCHANGED <<envVars, reqVars, unitVars>>

FlushAll ==
    /\ CacheFlushAll
    /\ UNCHANGED <<envVars, reqVars, unitVars>>

NextStats ==
    \/ CacheGet \/ CachePut \/ CacheInvalidate \/ InvalidateAll
    \/ ListGet \/ ListPut \/ ListInvalidate
    \/ GeneralGet \/ GeneralSet
    \/ FlushAll

SpecStats == Init /\ [][NextStats]_vars

(* ============ status derivation on its own: SpecParse ================== *)

\* any output of the status command
InitParse ==
    /\ InitCache /\ InitServer /\ ValidateIdle /\ RouteIdle /\ DispatchIdle /\ LoaderIdle /\ RunnerIdle
    /\ psLines \in SeqsUpTo(LineKinds, MaxLines)
    /\ psResult = Miss

\* getAppStatus turns the output into a status
DeriveStatus ==
    /\ psResult = Miss
    /\ psResult' = StatusFromLines(psLines, 0)
    /\ UNCHANGED <<cacheVars, envVars, reqVars, psLines, validationVars, route, disp, loaderVars, runnerVars>>

\* the command is run again and prints something else
NextOutput ==
    /\ psResult # Miss
    /\ psLines' \in SeqsUpTo(LineKinds, MaxLines)
    /\ psResult' = Miss
    /\ UNCHANGED <<cacheVars, envVars, reqVars, validationVars, route, disp, loaderVars, runnerVars>>

SpecParse == InitParse /\ [][DeriveStatus \/ NextOutput]_vars

(* ============== id validation on its own: SpecValidate ================= *)

\* lengths of the run of letters put into an id to bring it near MaxIdLength
PadLens == {0, 97, 98}
Pad(n) == [i \in 1..n |-> "a"]

\* any string of up to MaxCore characters, with a run of letters inserted
InitValidate ==
    /\ InitCache /\ InitServer /\ ParseIdle /\ RouteIdle /\ DispatchIdle /\ LoaderIdle /\ RunnerIdle
    /\ \E core \in SeqsUpTo(IdAlphabet, MaxCore), n \in PadLens :
         \E at \in 0..Len(core) :
            appId = SubSeq(core, 1, at) \o Pad(n) \o SubSeq(core, at + 1, Len(core))
    /\ validation = NoValidation

\* validateAppId is applied to the string
Validate ==
    /\ validation = NoValidation
    /\ validation' = ValidateAppId(appId)
    /\ UNCHANGED <<cacheVars, envVars, reqVars, psLines, psResult, appId, route, disp, loaderVars, runnerVars>>

SpecValidate == InitValidate /\ [][Validate]_vars

(* =============== one request and the router: SpecRoutes ================ *)

\* a request for any operation on any id; the logs route reads ?lines=
InitRoutes ==
    /\ InitCache /\ InitServer /\ ParseIdle /\ ValidateIdle /\ DispatchIdle /\ LoaderIdle /\ RunnerIdle
    /\ \E op \in RouteOps, id \in RouteIds, lines \in LineParams :
         /\ op # "logs" => lines = NoParam
         /\ route = Received(op, id, lines)

RouteStep ==
    /\ RunValidateAppId \/ RunValidateQueryParams \/ RunController
    /\ UNCHANGED <<cacheVars, envVars, reqVars, psLines, psResult, validationVars, disp, loaderVars, runnerVars>>

SpecRoutes == InitRoutes /\ [][RouteStep]_vars

(* ========= the docker manager called directly: SpecDispatch ============ *)

\* the docker manager is called for two ids, any non-empty strings
InitDispatch ==
    /\ InitCache /\ InitServer /\ ParseIdle /\ ValidateIdle /\ RouteIdle /\ LoaderIdle /\ RunnerIdle
    /\ \E a \in SeqsUpTo(IdAlphabet, MaxCore), b \in SeqsUpTo(IdAlphabet, MaxCore) :
         /\ a # <<>> /\ b # <<>>
         /\ disp = [ids |-> <<a, b>>, calls |-> <<>>]

\* the next of the two calls
DispatchCall ==
    /\ Len(disp.calls) < Len(disp.ids)
    /\ \E exists \in BOOLEAN :
         disp' = [disp EXCEPT !.calls =
                    Append(@, ExecuteDockerCompose(disp.ids[Len(disp.calls) + 1], exists))]
    /\ UNCHANGED <<cacheVars, envVars, reqVars, psLines, psResult, validationVars, route, loaderVars, runnerVars>>

SpecDispatch == InitDispatch /\ [][DispatchCall]_vars

(* ============ the loader over any apps directory: SpecLoader =========== *)

\* a catalog stored in the cache before the application in it was removed
StaleCatalog == {Descriptor(<<"app">>, <<"app">>)}

\* any content of the directories; nothing lies inside a directory that is
\* not there; the apps directory itself may be unreadable; the cache may
\* hold a catalog
InitLoader ==
    /\ now = 0
    /\ statusCache = [id \in Ids |-> NoEntry]
    /\ lastOp = [id \in Ids |-> NoOp]
    /\ got = NoGet
    /\ stats = ZeroStats
    /\ libStats = ZeroStats
    /\ listCache \in {NoList, [present |-> TRUE, v |-> StaleCatalog, t |-> ListTTL]}
    /\ generalCache = NoGeneral
    /\ fsState = [id \in Ids |-> "ok"]
    /\ rootReadable \in BOOLEAN
    /\ containers = [id \in Ids |-> <<>>]
    /\ epoch = [id \in Ids |-> 0]
    /\ req = [r \in Reqs |-> IdleReq]
    /\ served = 0
    /\ puts = 0
    /\ ParseIdle /\ ValidateIdle /\ RouteIdle /\ DispatchIdle /\ RunnerIdle
    /\ appsDir \in [Dirs -> DirKinds]
    /\ \A t \in TopDirs : appsDir[t] = "absent" =>
           \A p \in SubDirsOf(t) : appsDir[p] = "absent"
    /\ loaded = NoCall

\* ids looked up: every directory, a bare name that exists inside a category
\* only, and the id written in a manifest
LookupIds == Dirs \cup {<<"app">>, ManifestId}

\* loadApps() is called
LoaderScan ==
    /\ loaded' = [NoCall EXCEPT !.call = "scan", !.scan = ScanAll, !.scans = 1,
                                !.probes = IF rootReadable THEN Tried ELSE {}]
    /\ UNCHANGED <<cacheVars, envVars, reqVars, psLines, psResult, validationVars,
                   route, disp, appsDir, runnerVars>>

\* findAppById(id) is called
LoaderFind ==
    /\ \E id \in LookupIds : \E d \in FindResults(id) :
         loaded' = [NoCall EXCEPT !.call = "find", !.arg = id, !.found = d,
                                  !.scans = FindScans(id), !.probes = FindProbes(id)]
    /\ UNCHANGED <<cacheVars, envVars, reqVars, psLines, psResult, validationVars,
                   route, disp, appsDir, runnerVars>>

SpecLoader == InitLoader /\ [][LoaderScan \/ LoaderFind]_vars

(* ===================== the whole backend: Spec ========================= *)

\* a client of the cache module stores the status it has just queried
CacheClientPut ==
    /\ puts < MaxPuts
    /\ \E id \in Ids : CachePutStatus(id, DockerGetAppStatus(id, TRUE))
    /\ puts' = puts + 1
    /\ UNCHANGED <<envVars, req, served, unitVars>>

Handlers ==
    \E r \in Reqs :
        \/ \E id \in Ids : StartApp_Lookup(r, id)
        \/ StartApp_Dispatch(r)
        \/ StartApp_Exit(r)
        \/ StartApp_Status(r)
        \/ \E id \in Ids : StopApp_Dispatch(r, id)
        \/ StopApp_Exit(r)
        \/ \E id \in Ids : GetApp_Lookup(r, id)
        \/ GetApp_Status(r)
        \/ ListApps_Scan(r)
        \/ ListApps_Status(r)
        \/ ListApps_Respond(r)

Environment ==
    \/ \E id \in Ids : FilesRemoved(id)
    \/ RootLost

Next == CacheClientPut \/ Handlers \/ Environment

Spec == Init /\ [][Next]_vars

\* the server as deployed: no module calls cache.setAppStatus
Corruption == \E id \in Ids : ManifestCorrupted(id)

SpecServer == Init /\ [][Handlers \/ Environment \/ Corruption]_vars

(* =================== the launch test on its own: SpecRunner ============ *)

\* one application is about to be tested; the commands may succeed or fail
\* and the project may have any containers in any state
InitRunner ==
    /\ InitCache /\ InitServer
    /\ ParseIdle /\ ValidateIdle /\ RouteIdle /\ DispatchIdle /\ LoaderIdle
    /\ testEnv \in [startOk : BOOLEAN, psOk : BOOLEAN,
                     ps : SeqsUpTo(ContainerStates, MaxTestContainers),
                     CHECK_HEALTH : BOOLEAN, healthCheck : BOOLEAN,
                     healthy : BOOLEAN, stopOk : BOOLEAN]
    /\ testResult = [NoTest EXCEPT !.pc = "start"]

TestApp ==
    TestApp_Start \/ TestApp_Status \/ TestApp_Health \/ TestApp_Stop \/ TestApp_Catch

SpecRunner == InitRunner /\ [][TestApp]_vars

\* the server with the event loop running every continuation that is ready:
\* each step of a handler that waits for nothing outside the server is
\* taken; execAsync is given no timeout option (docker.js 30-33), so the end
\* of a docker-compose process is a step the server only waits for
OwnStep(r) ==
    \/ StartApp_Dispatch(r)
    \/ StartApp_Status(r)
    \/ GetApp_Status(r)
    \/ ListApps_Status(r)
    \/ ListApps_Respond(r)

SpecLive ==
    /\ Init
    /\ [][Handlers]_vars
    /\ \A r \in Reqs : WF_vars(OwnStep(r))

\* requests racing with each other and with the cache client, the apps
\* directory left alone
SpecRace == Init /\ [][CacheClientPut \/ Handlers]_vars

(* ============================== claims ================================= *)

\* C1: whenever startApp has issued `up -d` for an id, cache.getAppStatus of
\* that id was a miss at the moment the command was issued.
C1_InvalidatedBeforeStart ==
    \A r \in Reqs : "up" \in req[r].cmds => req[r].cacheAtIssue = Miss

\* C2: a read (getApp or listApps) never returns a status made before a start
\* command that had already been issued when the read began.
C2_NoStaleRead ==
    \A r \in Reqs : req[r].op \in {"get", "list"} => ~req[r].stale

\* a read of an id answered while a start of that id, issued before the read
\* began, is still in progress
C2_Witness ==
    \E r \in Reqs, w \in Reqs :
        /\ req[w].op = "start" /\ req[w].pc \in {"start_inflight", "start_settle"}
        /\ req[r].op = "get" /\ req[r].id = req[w].id
        /\ req[r].pc = "done" /\ req[r].code = 200
        /\ req[r].beginEpoch[req[r].id] >= 1

\* C3: startApp on an id for which findAppById returns no descriptor answers
\* 404 and issues no docker-compose command.
C3_UnknownIdNotFound ==
    \A r \in Reqs :
        req[r].op = "start" /\ req[r].lookup = "none" =>
            /\ req[r].pc = "done"
            /\ req[r].code = 404 /\ req[r].body = "not_found"
            /\ req[r].cmds = {}

C3_Witness ==
    \E r \in Reqs : req[r].op = "start" /\ req[r].lookup = "none" /\ req[r].pc = "done"

\* C4: when the start of the docker manager fails (compose file missing, or the
\* command exits non-zero) startApp answers with an error and never with the
\* success message; with the compose file missing no command is issued.
C4_StartFailureIsError ==
    \A r \in Reqs :
        req[r].op = "start" =>
            /\ req[r].probe = "absent" =>
                 /\ req[r].cmds = {}
                 /\ req[r].pc = "done" /\ req[r].code = 500 /\ req[r].body = "error"
                 /\ req[r].status = Miss
            /\ req[r].outcome = "exitfail" =>
                 /\ req[r].pc = "done" /\ req[r].code = 500 /\ req[r].body = "error"
                 /\ req[r].status = Miss
            /\ req[r].body = "started" => req[r].outcome = "ok"

\* the compose file vanished between the existence check and the dispatch
C4_Witness ==
    \E r \in Reqs :
        /\ req[r].op = "start" /\ req[r].lookup = "found"
        /\ req[r].probe = "absent" /\ req[r].pc = "done"

\* number of container records in the output, and whether all of them run
RecordCount(lines) == Cardinality({i \in DOMAIN lines : lines[i].kind = "json"})
RecordsAllRun(lines) ==
    \A i \in DOMAIN lines : lines[i].kind = "json" => lines[i].State = "running"

\* C5: the state derived from the container records of a successful status
\* query is stopped iff there is no record, running iff there is at least one
\* and all run, partial iff there is at least one and not all run; containers
\* is empty when the state is stopped.
C5_StateDerivation ==
    psResult # Miss =>
        /\ psResult.status = "stopped" <=> RecordCount(psLines) = 0
        /\ psResult.status = "running" <=>
               RecordCount(psLines) >= 1 /\ RecordsAllRun(psLines)
        /\ psResult.status = "partial" <=>
               RecordCount(psLines) >= 1 /\ ~RecordsAllRun(psLines)
        /\ psResult.status = "stopped" => psResult.containers = <<>>
        /\ Len(psResult.containers) = RecordCount(psLines)

\* records of a running and of an exited container between lines that are dropped
C5_Witness ==
    /\ psResult.status = "partial"
    /\ \E i, j \in DOMAIN psLines :
         /\ psLines[i] = JsonLine("running") /\ psLines[j] = JsonLine("exited")
    /\ \E i \in DOMAIN psLines : psLines[i].kind # "json"

\* C6: a status query whose external call failed yields state unknown with no
\* containers.
C6_FailureIsUnknown ==
    \A r \in Reqs :
        req[r].status.error =>
            req[r].status.status = "unknown" /\ req[r].status.containers = <<>>

\* C7: listApps answers with one entry per descriptor of the catalog; the entry
\* of an application whose status query failed says unknown; the call fails
\* only when the scan of the apps directory fails.
C7_ListDegradesPerItem ==
    \A r \in Reqs :
        req[r].op = "list" /\ req[r].pc = "done" =>
            /\ req[r].code \in {200, 500}
            /\ req[r].code = 200 =>
                 \A id \in Ids :
                    /\ id \in req[r].catalog <=> req[r].entries[id] # "-"
                    /\ id \in req[r].failed => req[r].entries[id] = "unknown"

\* C8: when stopApp has answered after a successful stop, the cache holds the
\* synthetic status (stopped, no containers) under the id; after a failed
\* stop the answer is an error and never says stopped.
C8_StopWritesSynthetic ==
    \A r \in Reqs :
        req[r].op = "stop" /\ req[r].pc = "done" =>
            /\ req[r].outcome = "ok" =>
                 /\ req[r].code = 200 /\ req[r].body = "stopped"
                 /\ req[r].cacheAtDone # Miss
                 /\ req[r].cacheAtDone.status = "stopped"
                 /\ req[r].cacheAtDone.containers = <<>>
            /\ req[r].outcome # "ok" =>
                 req[r].code = 500 /\ req[r].body = "error"

\* C9: cache.getAppStatus right after setAppStatus(id, v) returns v; once more
\* than StatusTTL seconds have passed since the last set it returns a miss,
\* whether or not the periodic sweep has run; a hit is always the value set.
C9_RoundTripAndExpiry ==
    got.id # NoId /\ got.prior.kind = "put" =>
        /\ got.at = got.prior.at => got.res = got.prior.v
        /\ got.at > got.prior.at + StatusTTL => got.res = Miss
        /\ got.res # Miss => got.res = got.prior.v

\* a read after the TTL of an entry that the sweep has not removed
C9_Witness ==
    /\ got.id # NoId /\ got.prior.kind = "put"
    /\ got.at > got.prior.at + StatusTTL
    /\ got.res = Miss

\* C10: cache.getAppStatus after invalidateAppStatus(id), with no setAppStatus
\* in between, is a miss.
C10_InvalidateThenMiss ==
    got.id # NoId /\ got.prior.kind = "inv" => got.res = Miss

\* an entry that had not expired was invalidated and then read
C10_Witness ==
    /\ got.id # NoId /\ got.prior.kind = "inv"
    /\ got.prior.v # Miss

\* C11: no cache operation makes a hit or miss counter reported by getStats,
\* of any store, smaller than it was.
C11_CountersNeverDecrease ==
    [][ /\ \A s \in Stores :
            /\ GetStats'.own[s].hits >= GetStats.own[s].hits
            /\ GetStats'.own[s].misses >= GetStats.own[s].misses
        /\ GetStats'.appListStats.hits >= GetStats.appListStats.hits
        /\ GetStats'.appListStats.misses >= GetStats.appListStats.misses
        /\ GetStats'.appStatusStats.hits >= GetStats.appStatusStats.hits
        /\ GetStats'.appStatusStats.misses >= GetStats.appStatusStats.misses
        /\ GetStats'.generalStats.hits >= GetStats.generalStats.hits
        /\ GetStats'.generalStats.misses >= GetStats.generalStats.misses ]_vars

\* C12: getApp queries the docker manager for an id only when
\* cache.getAppStatus of that id is a miss, and the status it answers with is
\* in the cache when the response is sent.
C12_ReadsThroughCache ==
    \A r \in Reqs :
        req[r].op = "get" /\ "ps" \in req[r].cmds =>
            /\ req[r].cacheAtIssue = Miss
            /\ req[r].pc = "done" /\ req[r].code = 200 =>
                   req[r].cacheAtDone = req[r].status

\* C13: when startApp answers 200, `up -d` has ended well, the settling
\* interval has passed, the status has been queried after it, and the
\* cache entry of the id holds the status of the response.
C13_StartWritesFreshStatus ==
    \A r \in Reqs :
        req[r].op = "start" /\ req[r].pc = "done" /\ req[r].code = 200 =>
            /\ req[r].outcome = "ok"
            /\ {"up", "ps"} \subseteq req[r].cmds
            /\ now >= req[r].settleAt
            /\ req[r].cacheAtDone = req[r].status

\* one segment: positions a..b of s, not empty, letters, digits, '_' and '-' only
IsSegment(s, a, b) == a <= b /\ \A i \in a..b : s[i] \in {"a", "7", "_", "-"}

C15_InvalidIdStopsAtRouter ==
    ~ValidateAppId(route.appId).valid =>
        /\ ~route.lookups
        /\ route.calls = {}
        /\ route.pc = "done" => route.code = 400

\* a logs request with an invalid id has been answered
C15_Witness ==
    /\ route.op = "logs" /\ route.pc = "done"
    /\ ~ValidateAppId(route.appId).valid
    /\ route.errcode = "INVALID_APP_ID"

\* the string is the decimal notation of an integer
IsInteger(s) ==
    \/ Len(s) >= 1 /\ \A i \in 1..Len(s) : s[i] \in {"0", "1"}
    \/ Len(s) >= 2 /\ s[1] = "-" /\ \A i \in 2..Len(s) : s[i] \in {"0", "1"}

IntegerOf(s) ==
    IF s[1] = "-" THEN 0 - DecimalValue(s, 2, Len(s)) ELSE DecimalValue(s, 1, Len(s))

\* C16: a logs request whose lines parameter is not an integer in
\* [1, 10000] is answered 400 without any command, and every --tail handed
\* to the docker manager lies in [1, 10000].
C16_LinesValidated ==
    /\ /\ route.lines.present
       /\ ~(IsInteger(route.lines.chars)
             /\ IntegerOf(route.lines.chars) \in 1..10000)
       => /\ route.calls = {}
          /\ route.pc = "done" => route.code = 400
    /\ \A c \in route.calls : c.cmd = "logs" => c.tail \in 1..10000

\* C17: two different valid ids never run their commands under the same
\* project name.
C17_NamespaceInjective ==
    \A i, j \in 1..Len(disp.calls) :
        LET c == disp.calls[i]
            d == disp.calls[j]
        IN  /\ c.project # <<>> /\ d.project # <<>>
            /\ ValidateAppId(c.appId).valid /\ ValidateAppId(d.appId).valid
            /\ c.appId # d.appId
            => c.project # d.project

\* s[a..b] is a segment '..' of the path s
IsParentSegment(s, a, b) ==
    /\ b = a + 1 /\ s[a] = "." /\ s[b] = "."
    /\ a = 1 \/ s[a - 1] = "/"
    /\ b = Len(s) \/ s[b + 1] = "/"

\* C18: executeDockerCompose, given an id with a '..' segment, a leading '/'
\* or a character other than letters, digits, '_', '-' and '/', throws
\* without having probed the file system and without running a command.
C18_DispatcherRejectsFirst ==
    \A i \in 1..Len(disp.calls) :
        LET c == disp.calls[i]
            s == c.appId
        IN  \/ \E a \in 1..Len(s), b \in 1..Len(s) : IsParentSegment(s, a, b)
            \/ s[1] = "/"
            \/ \E k \in 1..Len(s) : s[k] \notin {"a", "7", "_", "-", "/"}
            => /\ c.thrown = "Invalid app ID"
               /\ ~c.probed
               /\ c.project = <<>>

\* C19: every descriptor returned by loadApps or findAppById has the id of
\* the directory it was loaded from, and findAppById of an id returned by
\* loadApps returns a descriptor with that id.
C19_IdIsPathDerived ==
    /\ loaded.call = "scan" =>
          \A d \in loaded.scan.apps :
              /\ d.id = d.dir
              /\ \A f \in FindResults(d.id) : f.res = "found" /\ f.id = d.id
    /\ loaded.call = "find" /\ loaded.found.res = "found" =>
          loaded.found.id = loaded.found.dir

\* the directory holds an application: it is at the root, or inside a root
\* directory that has no description.json, and both its files parse
WellFormedApp(p) ==
    /\ appsDir[p] \in {"ok", "withid"}
    /\ Len(p) = 2 => appsDir[<<p[1]>>] = "plain"

\* C20: loadApps throws exactly when the apps directory cannot be read;
\* otherwise it returns every well-formed application and no directory
\* whose description.json or docker-compose.yml is missing or does not parse.
C20_ScanSkipsBrokenApps ==
    loaded.call = "scan" =>
        /\ loaded.scan.res = "throw" <=> ~rootReadable
        /\ loaded.scan.res = "ok" =>
              /\ \A p \in Dirs : WellFormedApp(p) => \E d \in loaded.scan.apps : d.dir = p
              /\ \A d \in loaded.scan.apps :
                    appsDir[d.dir] \notin {"absent", "plain", "nocompose",
                                           "badjson", "badyaml"}

\* a scan has returned one application of a category whose other application
\* has a description.json that does not parse
C20_Witness ==
    /\ loaded.call = "scan" /\ loaded.scan.res = "ok"
    /\ appsDir[<<"web">>] = "plain"
    /\ appsDir[<<"web", "app">>] = "badjson"
    /\ appsDir[<<"web", "db">>] = "ok"
    /\ \E d \in loaded.scan.apps : d.dir = <<"web", "db">>

\* C21: loadApps returns no application whose description.json has no name.
C21_NamelessAppAbsent ==
    loaded.call = "scan" =>
        \A d \in loaded.scan.apps : appsDir[d.dir] # "noname"

\* C22: findAppById throws only when the apps directory cannot be read, never
\* because a description.json or docker-compose.yml does not parse.
C22_FindNeverRaisesOnParseFailure ==
    loaded.call = "find" /\ loaded.found.res = "throw" =>
        Len(loaded.arg) = 1 /\ ~rootReadable

HoldsManifest(p) == appsDir[p] \notin {"absent", "plain"}

\* C28: in a scan a directory of the apps directory that holds a
\* description.json is loaded as one application and nothing inside it is
\* looked at; one that holds none is not loaded itself and each directory
\* inside it is loaded as an application of that category.
C28_CategoryIffNoManifest ==
    loaded.call = "scan" /\ rootReadable =>
        \A t \in TopDirs :
            IF HoldsManifest(t)
            THEN /\ t \in loaded.probes
                 /\ loaded.probes \cap SubDirsOf(t) = {}
                 /\ \A d \in loaded.scan.apps : d.dir \notin SubDirsOf(t)
            ELSE /\ t \notin loaded.probes
                 /\ loaded.probes \cap SubDirsOf(t) =
                        {p \in SubDirsOf(t) : appsDir[p] # "absent"}
                 /\ \A d \in loaded.scan.apps : d.dir # t

\* a directory with a manifest and a well-formed application inside it has
\* been scanned: the directory is returned, the application inside is not
C28_Witness ==
    /\ loaded.call = "scan" /\ loaded.scan.res = "ok"
    /\ appsDir[<<"web">>] = "ok" /\ appsDir[<<"web", "app">>] = "ok"
    /\ \E d \in loaded.scan.apps : d.dir = <<"web">>
    /\ \A d \in loaded.scan.apps : d.dir # <<"web", "app">>

\* C30: where every manifest parses and none stores an id, findAppById(id)
\* returns a descriptor exactly when loadApps returns one with that id.
C30_LookupPathsAgree ==
    /\ loaded.call = "find" /\ rootReadable
    /\ \A p \in Dirs : appsDir[p] \notin {"badjson", "badyaml", "withid"}
    => (loaded.found.res = "found" <=> \E d \in ScanAll.apps : d.id = loaded.arg)

\* C24: getApp answers 404 APP_NOT_FOUND without any docker-compose command
\* when findAppById returns no descriptor, and answers 200 with the
\* descriptor and the status that `ps` gave when it returns one.
C24_GetAppExistenceFirst ==
    \A r \in Reqs :
        req[r].op = "get" =>
            /\ req[r].lookup = "none" =>
                  /\ req[r].pc = "done"
                  /\ req[r].code = 404 /\ req[r].body = "not_found"
                  /\ req[r].cmds = {}
            /\ req[r].lookup = "found" /\ req[r].pc = "done" =>
                  /\ req[r].code = 200 /\ req[r].body = "app"
                  /\ req[r].cmds = {"ps"}
                  /\ req[r].status # Miss

\* one getApp has been answered 404 and another 200
C24_Witness ==
    \E r, o \in Reqs :
        /\ req[r].op = "get" /\ req[r].lookup = "none" /\ req[r].pc = "done"
        /\ req[o].op = "get" /\ req[o].lookup = "found" /\ req[o].code = 200

\* C25: getAppLogs hands a logs command to the docker manager only after it
\* has looked the application up with findAppById.
C25_LogsAfterExistenceCheck ==
    route.op = "logs" /\ route.calls # {} => route.lookups

\* C29: a step of setAppStatus(a, v) or invalidateAppStatus(a) leaves the
\* status entry of every other id and the cached catalog as they were; a step
\* of invalidateAllAppStatus leaves the cached catalog as it was; a step of
\* setAppList or invalidateAppList leaves every status entry as it was.
C29_StoresIndependent ==
    [][ /\ \A a \in Ids :
            \/ \E v \in CacheValues(a) : CachePutStatus(a, v)
            \/ CacheInvalidateStatus(a)
            => /\ \A b \in Ids \ {a} : statusCache'[b] = statusCache[b]
               /\ listCache' = listCache
        /\ CacheInvalidateAllStatus => listCache' = listCache
        /\ \/ \E apps \in ListValues : CachePutList(apps)
           \/ CacheInvalidateList
           => statusCache' = statusCache ]_vars

\* the status of one id has been invalidated after that of another was
\* stored, with a catalog in the cache: the other entry and the catalog
\* are still there
C29_Witness ==
    \E a, b \in Ids :
        /\ a # b
        /\ lastOp[a].kind = "inv" /\ lastOp[a].v # Miss /\ ~statusCache[a].present
        /\ lastOp[b].kind = "put" /\ statusCache[b].present
        /\ listCache.present

\* C26: every request the server has accepted is answered, whether or not
\* the docker-compose process it started ever ends.
C26_RequestsComplete ==
    \A r \in Reqs : (req[r].pc \notin {"idle", "done"}) ~> (req[r].pc = "done")

\* C27: testApp counts an application as PASSED only if `up -d` succeeded, a
\* container was running after the wait, every container was running, the
\* health probe passed when CHECK_HEALTH is on and the app has a healthCheck
\* url, and `down` succeeded.
C27_PassedOnlyIfAllCriteria ==
    testResult.verdict = "PASSED" =>
        /\ testEnv.startOk
        /\ testEnv.psOk
        /\ \E i \in 1..Len(testEnv.ps) : testEnv.ps[i] = "running"
        /\ \A i \in 1..Len(testEnv.ps) : testEnv.ps[i] = "running"
        /\ testEnv.CHECK_HEALTH /\ testEnv.healthCheck => testEnv.healthy
        /\ testEnv.stopOk

====
